---- MODULE Spec2Model ----
(***************************************************************************)
(* BaseAiCOCOImageInferenceModel (flavor/serve/inference):                 *)
(* the image reconciliation (_set_images, _update_images) and the stage    *)
(* pipeline (__call__) of one shared model instance.                       *)
(*                                                                         *)
(* Strings are sequences of one-character strings, so that                 *)
(* str.replace("/", "_") and the substring test `in` are computed.         *)
(***************************************************************************)
EXTENDS Integers, Sequences, FiniteSets, TLC

\* ------------------------------------------------------------------ bounds
MaxFiles == 2
MaxImages == 2
MaxModified == 2
ConcLen == 1

\* ------------------------------------------------------------------ inputs
\* File paths as the serving layer hands them over ("a", "b", "a_b").
FilePool == { <<"a">>, <<"b">>, <<"a", "_", "b">> }
\* file_name values of the AiCOCO input ("a", "b", "a/b").
NamePool == { <<"a">>, <<"b">>, <<"a", "/", "b">> }
\* ids of the descriptors a client sends, and the values generate() may return.
ImageIds == { "i1", "i2" }
GeneratedIds == { "g1", "g2" }
\* The two invocations of the one instance.
Invocations == { 1, 2 }

None == "None"

SeqsUpTo(S, n) == UNION { [1..k -> S] : k \in 0..n }

Range(s) == { s[i] : i \in 1..Len(s) }

\* An AiImage dictionary.
Descriptor(id, index, file_name) ==
    [id |-> id, index |-> index, file_name |-> file_name,
     category_ids |-> None, regressions |-> None]

\* The descriptors a client may send: the first id carries index 0, the second 1.
InputDescriptors ==
    { Descriptor(i, IF i = "i1" THEN 0 ELSE 1, n) : i \in ImageIds, n \in NamePool }

\* net_input: the keyword arguments of __call__; an absent or None entry is falsy
\* like the empty list.
NetInputs(maxf, maxi) ==
    { [files |-> f, images |-> im] :
        f \in SeqsUpTo(FilePool, maxf), im \in SeqsUpTo(InputDescriptors, maxi) }

NoInput == [files |-> <<>>, images |-> <<>>]

\* ------------------------------------------------------------ pure helpers
\* str.replace("/", "_")
Replace(s) == [i \in 1..Len(s) |-> IF s[i] = "/" THEN "_" ELSE s[i]]

\* Python's `n in f` on strings.
IsSubstring(n, f) ==
    \E k \in 0..(Len(f) - Len(n)) : SubSeq(f, k + 1, k + Len(n)) = n

\* format_image["file_name"].replace("/", "_") in file
Matches(format_image, file) == IsSubstring(Replace(format_image.file_name), file)

\* next(format_image for format_image in images if ...): the position of the
\* first match, 0 for StopIteration.
FirstMatchOrDefault(file, images) ==
    IF \E i \in 1..Len(images) : Matches(images[i], file)
    THEN CHOOSE i \in 1..Len(images) :
            /\ Matches(images[i], file)
            /\ \A j \in 1..(i - 1) : ~Matches(images[j], file)
    ELSE 1
FirstMatch(file, images) ==
    IF \E i \in 1..Len(images) : Matches(images[i], file)
    THEN CHOOSE i \in 1..Len(images) :
            /\ Matches(images[i], file)
            /\ \A j \in 1..(i - 1) : ~Matches(images[j], file)
    ELSE 0

\* The number of leading files that find a match (the loop stops at the first
\* file that does not).
RECURSIVE MatchedPrefix(_, _)
MatchedPrefix(files, images) ==
    IF files = <<>> \/ FirstMatch(Head(files), images) = 0
    THEN 0
    ELSE 1 + MatchedPrefix(Tail(files), images)

\* The index _set_images gives the descriptor synthesized for the file at
\* position i (1-based) of `files`: the literal "index": 0.
SyntheticIndex(i) == 0

\* elif len(files) == 1 and len(images) > 1: one file covering every image.
BatchedCaseEitherSingle(files, images) == Len(files) = 1 \/ Len(images) = 1
BatchedCase(files, images) == Len(files) = 1 /\ Len(images) > 1

\* self.images = [] : the first statement of _set_images.
KeptImages(old) == old
ResetImages(old) == <<>>

\* _set_images(files, images) on an instance whose self.images is `old`: what
\* self.images is left as, and what is raised. ids[i] is the value generate()
\* returns for the i-th file.
SetImagesInputOrder(old, files, images, ids) ==
    [images |-> images,
     raised |-> IF /\ files # <<>> /\ images # <<>> /\ Len(files) = Len(images)
                   /\ MatchedPrefix(files, images) # Len(files)
                THEN "Exception" ELSE None,
     warned |-> FALSE]
SetImages(old, files, images, ids) ==
    IF files # <<>> /\ images # <<>>
    THEN IF Len(files) = Len(images)
         THEN LET n == MatchedPrefix(files, images) IN
              [images |-> ResetImages(old) \o
                          [i \in 1..n |-> images[FirstMatch(files[i], images)]],
               raised |-> IF n = Len(files) THEN None ELSE "Exception",
               warned |-> FALSE]
         ELSE IF BatchedCase(files, images)
              THEN [images |-> images, raised |-> None, warned |-> FALSE]
              ELSE [images |-> ResetImages(old), raised |-> "ValueError",
                    warned |-> FALSE]
    ELSE IF files # <<>>
         THEN [images |-> ResetImages(old) \o
                          [i \in 1..Len(files) |->
                              Descriptor(ids[i], SyntheticIndex(i), files[i])],
               raised |-> None, warned |-> FALSE]
         ELSE IF images # <<>>
              THEN [images |-> images, raised |-> None, warned |-> FALSE]
              ELSE [images |-> ResetImages(old), raised |-> None, warned |-> TRUE]

\* What data_reader reports as modified_filenames: None, a sequence of names, or
\* a value that is no Sequence.
MfNone == [kind |-> "None", names |-> <<>>]
MfOther == [kind |-> "other", names |-> <<>>]
MfSeq(names) == [kind |-> "seq", names |-> names]
Reports(maxm) == { MfNone, MfOther } \cup { MfSeq(s) : s \in SeqsUpTo(FilePool, maxm) }

\* files.index(file): the first position (1-based here) holding file.
Index(files, file) ==
    CHOOSE i \in 1..Len(files) :
        files[i] = file /\ \A j \in 1..(i - 1) : files[j] # file

\* _update_images(files, modified_filenames) on self.images = self_images.
UpdateImagesNoReindex(self_images, files, mf) ==
    [images |-> self_images, raised |-> None]
UpdateImages(self_images, files, mf) ==
    IF mf.kind # "None" /\ files # <<>>
    THEN IF Len(self_images) # Len(mf.names)
         THEN [images |-> self_images, raised |-> "ValueError"]
         ELSE IF \E k \in 1..Len(mf.names) : mf.names[k] \notin Range(files)
              \* list.index raises ValueError
              THEN [images |-> self_images, raised |-> "ValueError"]
              ELSE IF \E k \in 1..Len(mf.names) :
                         Index(files, mf.names[k]) > Len(self_images)
                   \* self.images[i] out of range
                   THEN [images |-> self_images, raised |-> "IndexError"]
                   ELSE [images |-> [k \in 1..Len(mf.names) |->
                                        self_images[Index(files, mf.names[k])]],
                         raised |-> None]
    ELSE [images |-> self_images, raised |-> None]

\* ------------------------------------------------------------------- state
VARIABLES
    net_input,           \* per invocation: the keyword arguments of __call__
    images,              \* self.images, an attribute of the shared instance
    pc,                  \* per invocation: the stage about to run
    ids,                 \* per invocation: the values generate() returned
    modified_filenames,  \* per invocation: what data_reader reported
    raised,              \* per invocation: the exception that left __call__
    result,              \* per invocation: what __call__ returned
    log                  \* per invocation: the stages entered, in order

vars == <<net_input, images, pc, ids, modified_filenames, raised, result, log>>

\* The stages of __call__ in program order.
StageOrder ==
    << "set_images", "validate", "data_reader", "update_images",
       "preprocess", "inference", "postprocess", "output_formatter" >>

NoResult == [returned |-> FALSE, images |-> <<>>]

Init ==
    /\ net_input = [t \in Invocations |-> NoInput]
    /\ images = <<>>
    /\ pc = [t \in Invocations |-> "idle"]
    /\ ids = [t \in Invocations |-> <<>>]
    /\ modified_filenames = [t \in Invocations |-> MfNone]
    /\ raised = [t \in Invocations |-> None]
    /\ result = [t \in Invocations |-> NoResult]
    /\ log = [t \in Invocations |-> <<>>]

\* The stage after the one invocation t is in.
NextStage(t) ==
    IF pc[t] = "output_formatter" THEN "done"
    ELSE LET k == CHOOSE k \in 1..Len(StageOrder) : StageOrder[k] = pc[t]
         IN StageOrder[k + 1]

\* The stage invocation t is in has run: it is entered in the log.
Entered(t) == log' = [log EXCEPT ![t] = Append(@, pc[t])]

\* The stage returns and __call__ goes on to the next statement.
Advance(t) ==
    /\ pc' = [pc EXCEPT ![t] = NextStage(t)]
    /\ UNCHANGED raised

\* An exception e leaves the stage: nothing in __call__ catches it (the one
\* except clause re-raises), so it leaves __call__.
RaiseSwallowed(t, e) ==
    /\ pc' = [pc EXCEPT ![t] = NextStage(t)]
    /\ raised' = [raised EXCEPT ![t] = e]
Raise(t, e) ==
    /\ pc' = [pc EXCEPT ![t] = "failed"]
    /\ raised' = [raised EXCEPT ![t] = e]

\* __call__(**net_input) is entered, with one of `inputs` as net_input.
Call(t, inputs) ==
    /\ pc[t] = "idle"
    /\ \E inp \in inputs : net_input' = [net_input EXCEPT ![t] = inp]
    /\ pc' = [pc EXCEPT ![t] = "set_images"]
    /\ UNCHANGED <<images, ids, modified_filenames, raised, result, log>>

\* The values generate() returns in one _set_images: one per file when only
\* files are given, none otherwise.
GeneratedFor(inp) ==
    IF inp.files # <<>> /\ inp.images = <<>>
    THEN [1..Len(inp.files) -> GeneratedIds]
    ELSE { <<>> }

\* self._set_images(**net_input)
DoSetImages(t) ==
    /\ pc[t] = "set_images"
    /\ \E g \in GeneratedFor(net_input[t]) :
         LET r == SetImages(images, net_input[t].files, net_input[t].images, g) IN
         /\ ids' = [ids EXCEPT ![t] = g]
         /\ images' = r.images
         /\ IF r.raised = None THEN Advance(t) ELSE Raise(t, r.raised)
    /\ Entered(t)
    /\ UNCHANGED <<net_input, modified_filenames, result>>

\* The checks on self.images: it is a list here, never None; each element goes
\* through AiImage.model_validate, whose ValidationError is re-raised.
Validate(t) ==
    /\ pc[t] = "validate"
    /\ \/ Advance(t)
       \/ images # <<>> /\ Raise(t, "ValidationError")
    /\ Entered(t)
    /\ UNCHANGED <<net_input, images, ids, modified_filenames, result>>

\* data_reader returns (data, mf, metadata); a mf that is neither None nor a
\* Sequence raises TypeError.
DataReaderReturns(t, mf) ==
    /\ pc[t] = "data_reader"
    /\ modified_filenames' = [modified_filenames EXCEPT ![t] = mf]
    /\ IF mf.kind = "other" THEN Raise(t, "TypeError") ELSE Advance(t)
    /\ Entered(t)
    /\ UNCHANGED <<net_input, images, ids, result>>

\* An extension point (data_reader, preprocess, inference, postprocess,
\* output_formatter) raises.
StageRaises(t, stage) ==
    /\ pc[t] = stage
    /\ Raise(t, "StageError")
    /\ Entered(t)
    /\ UNCHANGED <<net_input, images, ids, modified_filenames, result>>

DataReader(t, reports) ==
    /\ pc[t] = "data_reader"
    /\ \/ \E mf \in reports : DataReaderReturns(t, mf)
       \/ StageRaises(t, "data_reader")

\* self._update_images(modified_filenames=modified_filenames, **net_input)
DoUpdateImages(t) ==
    /\ pc[t] = "update_images"
    /\ LET r == UpdateImages(images, net_input[t].files, modified_filenames[t]) IN
         /\ images' = r.images
         /\ IF r.raised = None THEN Advance(t) ELSE Raise(t, r.raised)
    /\ Entered(t)
    /\ UNCHANGED <<net_input, ids, modified_filenames, result>>

\* preprocess, inference, postprocess: a stage that returns.
StageReturns(t, stage) ==
    /\ pc[t] = stage
    /\ Advance(t)
    /\ Entered(t)
    /\ UNCHANGED <<net_input, images, ids, modified_filenames, result>>

Preprocess(t) == StageReturns(t, "preprocess") \/ StageRaises(t, "preprocess")
Inference(t) == StageReturns(t, "inference") \/ StageRaises(t, "inference")
Postprocess(t) == StageReturns(t, "postprocess") \/ StageRaises(t, "postprocess")

\* result = self.output_formatter(out, images=self.images, ...); return result
OutputFormatter(t) ==
    \/ /\ pc[t] = "output_formatter"
       /\ result' = [result EXCEPT ![t] = [returned |-> TRUE, images |-> images]]
       /\ Advance(t)
       /\ Entered(t)
       /\ UNCHANGED <<net_input, images, ids, modified_filenames>>
    \/ StageRaises(t, "output_formatter")

\* One invocation on the instance.
Next ==
    \/ Call(1, NetInputs(MaxFiles, MaxImages))
    \/ DoSetImages(1)
    \/ Validate(1)
    \/ DataReader(1, Reports(MaxModified))
    \/ DoUpdateImages(1)
    \/ Preprocess(1)
    \/ Inference(1)
    \/ Postprocess(1)
    \/ OutputFormatter(1)

Spec == Init /\ [][Next]_vars

\* Two invocations one after the other with the same net_input, the extension
\* points deterministic: data_reader reports the second time what it reported
\* the first time.
CallAgain ==
    /\ pc[1] = "done"
    /\ Call(2, { net_input[1] })

NextSeq ==
    \/ Next
    \/ CallAgain
    \/ DoSetImages(2)
    \/ Validate(2)
    \/ DataReader(2, { modified_filenames[1] })
    \/ DoUpdateImages(2)
    \/ Preprocess(2)
    \/ Inference(2)
    \/ Postprocess(2)
    \/ OutputFormatter(2)

SpecSeq == Init /\ [][NextSeq]_vars

\* Two invocations of the one instance from two threads of the serving layer,
\* interleaved stage by stage.
NextConc ==
    \E t \in Invocations :
        \/ Call(t, NetInputs(ConcLen, ConcLen))
        \/ DoSetImages(t)
        \/ Validate(t)
        \/ DataReader(t, Reports(ConcLen))
        \/ DoUpdateImages(t)
        \/ Preprocess(t)
        \/ Inference(t)
        \/ Postprocess(t)
        \/ OutputFormatter(t)

SpecConc == Init /\ [][NextConc]_vars

\* ------------------------------------------------------------------ claims
Files(t) == net_input[t].files
Given(t) == net_input[t].images

\* Both files and images given, in equal number.
EqualLength(t) ==
    Files(t) # <<>> /\ Given(t) # <<>> /\ Len(Files(t)) = Len(Given(t))

\* _set_images has returned in invocation t and _update_images has not run yet.
AfterSetImages(t) == pc[t] \in { "validate", "data_reader", "update_images" }

\* _update_images is the last stage invocation t entered.
UpdateEntered(t) == Len(log[t]) = 4

\* What _set_images leaves in self.images for invocation t's own inputs.
Reconciled(t) == SetImages(<<>>, Files(t), Given(t), ids[t]).images

\* The bijections of 1..n.
Perms(n) == { f \in [1..n -> 1..n] : \A i, j \in 1..n : f[i] = f[j] => i = j }

Inverse(f) == [i \in DOMAIN f |-> CHOOSE j \in DOMAIN f : f[j] = i]

Distinct(s) == \A i, j \in 1..Len(s) : s[i] = s[j] => i = j

\* C1: with files and images of equal length, a successful _set_images leaves
\* as many images as files, and the i-th image's file_name ('/' as '_') is a
\* substring of the i-th file.
C1_OrderFollowsFiles ==
    (AfterSetImages(1) /\ EqualLength(1)) =>
        /\ Len(images) = Len(Files(1))
        /\ \A i \in 1..Len(images) :
              IsSubstring(Replace(images[i].file_name), Files(1)[i])

\* C1's case: two files, and the result is in another order than the input images.
C1_Witness ==
    /\ AfterSetImages(1) /\ EqualLength(1)
    /\ Len(Files(1)) = 2
    /\ images # Given(1)
    /\ images = <<Given(1)[2], Given(1)[1]>>

\* C2: with files only, _set_images synthesizes one descriptor per file, in
\* files order, the i-th with file_name files[i], index i (from 0), a generated
\* id, and null category_ids and regressions.
C2_SyntheticDescriptors ==
    (AfterSetImages(1) /\ Files(1) # <<>> /\ Given(1) = <<>>) =>
        /\ Len(images) = Len(Files(1))
        /\ \A i \in 1..Len(images) :
              /\ images[i].file_name = Files(1)[i]
              /\ images[i].index = i - 1
              /\ images[i].id = ids[1][i]
              /\ images[i].id \in GeneratedIds
              /\ images[i].category_ids = None
              /\ images[i].regressions = None

\* C4: the stages of an invocation run in program order, each at most once; a
\* stage that raises is the last one entered, the exception leaves __call__ and
\* nothing is returned.
C4_StagesInOrder ==
    /\ Len(log[1]) <= Len(StageOrder)
    /\ \A k \in 1..Len(log[1]) : log[1][k] = StageOrder[k]
    /\ pc[1] \in Range(StageOrder) =>
          /\ raised[1] = None
          /\ log[1] = SubSeq(StageOrder, 1, Len(log[1]))
          /\ StageOrder[Len(log[1]) + 1] = pc[1]
    /\ raised[1] # None =>
          /\ pc[1] = "failed"
          /\ result[1] = NoResult
    /\ pc[1] = "failed" => raised[1] # None /\ log[1] # <<>>
    /\ result[1].returned <=>
          (pc[1] = "done" /\ log[1] = StageOrder /\ raised[1] = None)

\* C4's case: preprocess raised after four stages had returned.
C4_Witness ==
    /\ pc[1] = "failed"
    /\ raised[1] = "StageError"
    /\ log[1] = SubSeq(StageOrder, 1, 5)

\* C5: when data_reader reports a sequence, _update_images raises if it is not
\* as long as self.images or names a file that is not in files (empty files
\* included): the invocation never goes on past _update_images.
C5_ReorderErrors ==
    LET mf == modified_filenames[1] IN
    ( /\ Len(log[1]) >= 4
      /\ mf.kind = "seq"
      /\ \/ Len(Reconciled(1)) # Len(mf.names)
         \/ \E k \in 1..Len(mf.names) : mf.names[k] \notin Range(Files(1)) )
    => ( /\ pc[1] = "failed"
         /\ UpdateEntered(1)
         /\ raised[1] # None )

\* The reorder case: files and self.images of equal length, and data_reader
\* reports the names of files as permuted by f.
ReorderedBy(t, f) ==
    /\ modified_filenames[t].kind = "seq"
    /\ Len(modified_filenames[t].names) = Len(Files(t))
    /\ \A i \in 1..Len(Files(t)) : modified_filenames[t].names[i] = Files(t)[f[i]]

\* _update_images returned the images permuted as f permutes files, and a second
\* _update_images with the inverse permutation gives the first order back.
PermutedBy(t, f) ==
    /\ pc[t] = "preprocess"
    /\ \A i \in 1..Len(Files(t)) : images[i] = Reconciled(t)[f[i]]
    /\ LET back == MfSeq([i \in 1..Len(Files(t)) |-> Files(t)[Inverse(f)[i]]])
           again == UpdateImages(images, Files(t), back)
       IN again.raised = None /\ again.images = Reconciled(t)

\* C6 as stated: for every non-empty files, images of the same length and
\* permutation of files, _update_images permutes the images the same way, and the
\* inverse permutation undoes it.
C6_ReorderPermutes ==
    ( /\ UpdateEntered(1)
      /\ Files(1) # <<>>
      /\ Len(Reconciled(1)) = Len(Files(1)) )
    => \A f \in Perms(Len(Files(1))) : ReorderedBy(1, f) => PermutedBy(1, f)

\* C6 amended: the same, for files that are pairwise distinct.
C6_ReorderPermutesDistinct ==
    ( /\ UpdateEntered(1)
      /\ Files(1) # <<>>
      /\ Distinct(Files(1))
      /\ Len(Reconciled(1)) = Len(Files(1)) )
    => \A f \in Perms(Len(Files(1))) : ReorderedBy(1, f) => PermutedBy(1, f)

\* C6's case: two distinct files reported in reverse, two different images.
C6_Witness ==
    /\ pc[1] = "preprocess"
    /\ UpdateEntered(1)
    /\ Len(Files(1)) = 2
    /\ Distinct(Files(1))
    /\ Len(Reconciled(1)) = 2
    /\ Reconciled(1)[1] # Reconciled(1)[2]
    /\ ReorderedBy(1, <<2, 1>>)
    /\ images = <<Reconciled(1)[2], Reconciled(1)[1]>>

\* C7: with files and images both given in different numbers, _set_images raises
\* ValueError and the invocation stops there, except for one file with several
\* images, where self.images is the input images.
C7_ShapeMismatch ==
    ( /\ log[1] # <<>>
      /\ Files(1) # <<>> /\ Given(1) # <<>>
      /\ Len(Files(1)) # Len(Given(1)) )
    => IF Len(Files(1)) = 1 /\ Len(Given(1)) > 1
       THEN /\ ~(pc[1] = "failed" /\ Len(log[1]) = 1)
            /\ AfterSetImages(1) => images = Given(1)
       ELSE /\ pc[1] = "failed"
            /\ raised[1] = "ValueError"
            /\ log[1] = <<"set_images">>
            /\ result[1] = NoResult

\* C7's case: more than one file and a single image.
C7_Witness ==
    /\ Len(Files(1)) > 1 /\ Len(Given(1)) = 1
    /\ pc[1] = "failed"
    /\ raised[1] = "ValueError"

\* Some file of invocation t has no descriptor whose file_name matches it.
Unmatched(t) ==
    \E i \in 1..Len(Files(t)) :
        \A j \in 1..Len(Given(t)) :
            ~IsSubstring(Replace(Given(t)[j].file_name), Files(t)[i])

\* C9: with files and images of equal length and a file that no descriptor
\* matches, _set_images raises, the invocation fails, and no later stage runs.
C9_MatchError ==
    (log[1] # <<>> /\ EqualLength(1) /\ Unmatched(1)) =>
        /\ pc[1] = "failed"
        /\ raised[1] = "Exception"
        /\ log[1] = <<"set_images">>
        /\ result[1] = NoResult

\* C9's case: the first of two files matched, the second did not.
C9_Witness ==
    /\ EqualLength(1) /\ Unmatched(1)
    /\ Len(Files(1)) = 2
    /\ pc[1] = "failed"
    /\ Len(images) = 1

\* C10: with files and images of equal length, a successful _set_images leaves
\* a permutation of the input images.
C10_Permutation ==
    (AfterSetImages(1) /\ EqualLength(1)) =>
        \E f \in Perms(Len(Given(1))) :
            images = [i \in 1..Len(Given(1)) |-> Given(1)[f[i]]]

\* What invocation t hands to output_formatter when it runs alone: its own
\* inputs reconciled, then reordered as its data_reader reported.
OwnImages(t) ==
    UpdateImages(Reconciled(t), Files(t), modified_filenames[t]).images

\* C3: whatever the interleaving, each invocation hands output_formatter the
\* image list made from its own inputs.
C3_Independent ==
    \A t \in Invocations : result[t].returned => result[t].images = OwnImages(t)

\* A descriptor without its id.
NoId(image) == [image EXCEPT !.id = None]

BothReturned == result[1].returned /\ result[2].returned

\* C8 as stated: two invocations with the same inputs hand output_formatter the
\* same image list.
C8_Idempotent ==
    BothReturned => result[1].images = result[2].images

\* C8 amended: the same when images are given; with files only, the two lists
\* agree in everything but the generated ids.
C8_IdempotentUpToIds ==
    BothReturned =>
        /\ Given(1) # <<>> => result[1].images = result[2].images
        /\ Len(result[1].images) = Len(result[2].images)
        /\ \A i \in 1..Len(result[1].images) :
              NoId(result[1].images[i]) = NoId(result[2].images[i])

\* C8's case: both invocations returned, images given with two files, reordered.
C8_Witness ==
    /\ BothReturned
    /\ EqualLength(1)
    /\ Len(Files(1)) = 2
    /\ result[2].images # Given(2)
    /\ result[2].images # <<>>

====
